---- MODULE Spec2Model ----
(***************************************************************************)
(* Model of confluence-blog-downloader (src/confluenceObjects.py).         *)
(*                                                                         *)
(* Part 1, the paginated lister: Server.scrape_list / Server.export_list   *)
(* / Blog._scrape_list_stop / Blog.list_posts, run against a remote        *)
(* listing that can grow between two page requests.                        *)
(* Part 2, the scraper: Blog.scrape_posts, BlogPost.scrape_post,           *)
(* ConfluenceObject._scrape_attachments / _scrape_comments, Comment,       *)
(* BlogPost._format_html / _export_html, Blog.create_index.                *)
(* Part 3, functions applied on their own: the index merge of export_list, *)
(* _format_attachment_filename, create_index, test_connection, _slugify.   *)
(*                                                                         *)
(* The program is single threaded.  An action is one stretch of code       *)
(* between two network round trips; the remote side moves between them.    *)
(***************************************************************************)
EXTENDS Integers, Sequences, FiniteSets, TLC

\* ---------------------------------------------------------------- bounds
MaxPosts == 3       \* posts the remote blog listing grows to
MaxLimit == 2       \* largest page size the server answers with
MaxEnd   == 2       \* largest settings.start / settings.end tried
MaxCalls == 2       \* scrape_list calls made by one process
MaxBatch == 2       \* ids given to one scrape_posts call
MaxRuns  == 1       \* scrape_posts calls over the same local folder
RecursionLimit == 4 \* nested _scrape_comments calls the interpreter allows
MaxRows  == 2       \* rows of one batch given to the index merge
MaxDocs  == 3       \* documents in the blog folder given to create_index
MaxLen   == 3       \* characters of a text given to _slugify

\* ------------------------------------------------------------- sequences
Min(a, b) == IF a < b THEN a ELSE b

RECURSIVE Flatten(_)
Flatten(ss) == IF ss = <<>> THEN <<>> ELSE Head(ss) \o Flatten(Tail(ss))

Ids(rows) == {rows[i] : i \in 1..Len(rows)}

\* ---------------------------------------------------------------- state
VARIABLES
    remote,      \* the remote blog listing, most recent first (post ids)
    pageLimit,   \* the page size the server uses ('limit' of every page)
    posts,       \* Server.posts, the class-level buffer of listed ids
    indexFile,   \* list_blogposts.csv: [exists, rows]
    lpc,         \* position inside scrape_list: "idle", "page", "done"
    content,     \* scrape_list's local 'content' (the page just fetched)
    merge,       \* scrape_list's argument 'merge'
    settings,    \* ScraperSettings of the Blog: [start, hasEnd, end]
    calls,       \* scrape_list calls made by this process so far
    dupWarned,   \* whether the last export_list emitted the duplicate warning
    \* history of the current scrape_list call (not read by the program)
    base,        \* Len(posts) when the call began
    fetched,     \* the results of every page fetched by the call, in order
    trail,       \* per processed page: [hasNext, stop, start, limit, size, issued]
    outcome      \* how the last call ended: "none", "returned", "raised"

lvars == <<remote, pageLimit, posts, indexFile, lpc, content, merge, settings,
           calls, dupWarned, base, fetched, trail, outcome>>

\* The state of the scraper (part 2).
VARIABLES
    rsel,        \* which remote content the server holds (a name)
    files,       \* local asset files: set of [path, body]
    docs,        \* exported documents under blog/: set of [name, post, html]
    indexHtml,   \* index.html: [exists, title, main]
    batch,       \* scrape_posts' local 'posts' (id tokens)
    idx,         \* position of the for loop in batch
    spc,         \* position inside scrape_posts
    step,        \* position inside BlogPost.scrape_post (index in its steps)
    items,       \* ConfluenceObjects built for the current post, in order
                 \*   of construction: [ID, kind, depth, parent, attDone, done]
    cur,         \* the object whose method is running (index in items)
    stack,       \* active _scrape_comments calls: [self, depth, results, i]
    work,        \* asset links of the running _scrape_attachments call
    wi,          \* position of its loops in work
    html,        \* self.html of the current post: [done, blocks]
    runs,        \* scrape_posts calls made so far
    \* history (not read by the program)
    attempts,    \* per asset of the running/last _scrape_attachments call:
                 \*   [path, before, after, requested, result, warned]
    written,     \* whether the current post's document has been written
    scraped,     \* batch positions whose post was scraped and exported
    fetchedFor,  \* batch positions for which a request was made
    warnedFor,   \* batch positions for which a warning was emitted
    cause,       \* why scrape_posts raised: "none" or the exception
    caught       \* the exceptions an except clause of the running call
                 \*   caught: set of [site, warned]

svars == <<rsel, files, docs, indexHtml, batch, idx, spc, step, items, cur,
           stack, work, wi, html, runs, attempts, written, scraped,
           fetchedFor, warnedFor, cause, caught>>

\* The application of one function of the program to chosen arguments.
VARIABLES
    fn,          \* the function applied: "none" before any
    arg,         \* its arguments
    res          \* what it returned

pvars == <<fn, arg, res>>

vars == <<lvars, svars, pvars>>

\* ---------------------------------------------------------- remote side
\* The list endpoint: the page starting at offset s.  A page carries
\* results, start, limit, size and, unless it is the last, _links.next.
Page(s) ==
    LET hi == Min(s + pageLimit, Len(remote))
    IN  [start   |-> s,
         limit   |-> pageLimit,
         size    |-> IF s < hi THEN hi - s ELSE 0,
         results |-> IF s < hi THEN SubSeq(remote, s + 1, hi) ELSE <<>>,
         hasNext |-> s + pageLimit < Len(remote)]

NoSettings == [start |-> 0, hasEnd |-> FALSE, end |-> 0]

NoContent == [start |-> 0, limit |-> 0, size |-> 0, results |-> <<>>, hasNext |-> FALSE]

\* A post is published remotely: it becomes the first of the listing and
\* shifts every other post one position down.
NewPost ==
    /\ Len(remote) < MaxPosts
    /\ remote' = <<Len(remote) + 1>> \o remote
    /\ UNCHANGED <<pageLimit, posts, indexFile, lpc, content, merge, settings,
                   calls, dupWarned, base, fetched, trail, outcome>>
    /\ UNCHANGED <<svars, pvars>>

\* ------------------------------------------------------------ export_list
\* pandas drop_duplicates(subset='ID'): the first row of each ID is kept.
RECURSIVE drop_duplicates(_)
drop_duplicates(rows) ==
    IF rows = <<>> THEN <<>>
    ELSE LET init == drop_duplicates(SubSeq(rows, 1, Len(rows) - 1))
             last == rows[Len(rows)]
         IN  IF last \in Ids(init) THEN init ELSE Append(init, last)

\* df.duplicated(subset='ID').sum(): rows whose ID occurred earlier.
duplicated_sum(rows) == Len(rows) - Len(drop_duplicates(rows))

\* Mutant: the buffer replaces the stored rows.
export_overwrite(buf, file, mrg) ==
    IF Len(buf) > 0 THEN [exists |-> TRUE, rows |-> buf] ELSE file

\* The rows export_list writes for buffer buf, or the file as it was when
\* the buffer is empty.
export_list(buf, file, mrg) ==
    IF Len(buf) > 0
    THEN [exists |-> TRUE,
          rows   |-> IF mrg /\ file.exists
                     THEN drop_duplicates(buf \o file.rows)
                     ELSE buf]
    ELSE file

\* Mutant: duplicate ids in the buffer pass without a warning.
warns_never(buf) == FALSE

export_warns(buf) == Len(buf) > 0 /\ duplicated_sum(buf) > 0

\* ------------------------------------------------------ _scrape_list_stop
scrape_list_stop(c, st) ==
    IF ~st.hasEnd THEN FALSE ELSE c.start + c.limit >= st.end

\* ------------------------------------------------------------ scrape_list
\* Mutant: export_list after the loop instead of in a finally clause.
ExportOnSuccessOnly(buf, mrg, how) ==
    /\ indexFile' = IF how = "returned" THEN export_list(buf, indexFile, mrg)
                                        ELSE indexFile
    /\ dupWarned' = (how = "returned" /\ export_warns(buf))
    /\ lpc' = "done"
    /\ outcome' = how

\* The finally clause: export_list runs however the try block ended.
Finally(buf, mrg, how) ==
    /\ indexFile' = export_list(buf, indexFile, mrg)
    /\ dupWarned' = export_warns(buf)
    /\ lpc' = "done"
    /\ outcome' = how

\* Blog.list_posts: a Blog is built from settings and scrape_list starts;
\* the first request either answers or raises.
ListStart ==
    /\ lpc = "idle"
    /\ calls < MaxCalls
    /\ calls' = calls + 1
    /\ \E m \in BOOLEAN, s \in 0..MaxEnd, he \in BOOLEAN, e \in 0..MaxEnd :
          /\ he => s <= e
          /\ merge' = m
          /\ settings' = [start |-> s, hasEnd |-> he, end |-> IF he THEN e ELSE 0]
          /\ base' = Len(posts)
          /\ trail' = <<>>
          /\ \/ /\ content' = Page(s)
                /\ fetched' = <<Page(s).results>>
                /\ lpc' = "page"
                /\ outcome' = "none"
                /\ UNCHANGED <<indexFile, dupWarned>>
             \/ /\ content' = NoContent
                /\ fetched' = <<>>
                /\ Finally(posts, m, "raised")
    /\ UNCHANGED <<remote, pageLimit, posts>>
    /\ UNCHANGED <<svars, pvars>>

\* One turn of the while loop: append the page, decide, and either leave
\* or request the next page (which answers or raises).
AppendPage(buf, c) == buf \o c.results

\* Mutant: 'and' for 'or' in the loop's exit test.
MustBreakAnd(c, st) == (~c.hasNext) /\ scrape_list_stop(c, st)

MustBreak(c, st) == (~c.hasNext) \/ scrape_list_stop(c, st)

ListPage ==
    /\ lpc = "page"
    /\ posts' = AppendPage(posts, content)
    /\ LET brk  == MustBreak(content, settings)
           entry(issued) == [hasNext |-> content.hasNext,
                             stop    |-> scrape_list_stop(content, settings),
                             start   |-> content.start,
                             limit   |-> content.limit,
                             size    |-> content.size,
                             issued  |-> issued]
           next == Page(content.start + content.limit)
       IN  \/ /\ brk
              /\ trail' = Append(trail, entry(FALSE))
              /\ Finally(posts', merge, "returned")
              /\ UNCHANGED <<content, fetched>>
           \/ /\ ~brk
              /\ trail' = Append(trail, entry(TRUE))
              /\ \/ /\ content' = next
                    /\ fetched' = Append(fetched, next.results)
                    /\ UNCHANGED <<indexFile, dupWarned, lpc, outcome>>
                 \/ /\ Finally(posts', merge, "raised")
                    /\ UNCHANGED <<content, fetched>>
    /\ UNCHANGED <<remote, pageLimit, merge, settings, calls, base>>
    /\ UNCHANGED <<svars, pvars>>

\* scrape_list has returned or raised to its caller: its locals are gone.
ListReturn ==
    /\ lpc = "done"
    /\ lpc' = "idle"
    /\ content' = NoContent
    /\ merge' = TRUE
    /\ settings' = NoSettings
    /\ base' = 0
    /\ fetched' = <<>>
    /\ trail' = <<>>
    /\ outcome' = "none"
    /\ UNCHANGED <<remote, pageLimit, posts, indexFile, calls, dupWarned>>
    /\ UNCHANGED <<svars, pvars>>

\* The process ends and a new one starts: the class attribute is [] again,
\* the index file stays.
Restart ==
    /\ lpc = "idle"
    /\ calls > 0
    /\ posts' = <<>>
    /\ calls' = 0
    /\ dupWarned' = FALSE
    /\ UNCHANGED <<remote, pageLimit, indexFile, lpc, content, merge, settings,
                   base, fetched, trail, outcome>>
    /\ UNCHANGED <<svars, pvars>>

InitList ==
    /\ remote = <<>>
    /\ pageLimit \in 1..MaxLimit
    /\ posts = <<>>
    /\ indexFile = [exists |-> FALSE, rows |-> <<>>]
    /\ lpc = "idle"
    /\ content = NoContent
    /\ merge = TRUE
    /\ settings = NoSettings
    /\ calls = 0
    /\ dupWarned = FALSE
    /\ base = 0
    /\ fetched = <<>>
    /\ trail = <<>>
    /\ outcome = "none"

NextList == NewPost \/ ListStart \/ ListPage \/ ListReturn \/ Restart


\* ===================================================== part 2: codec
\* Characters are one-character strings; text is a sequence of them.
\* "NBSP" stands for U+00A0, "FI" for the ligature U+FB01, "ACUTE" for the
\* combining accent U+0301 and "AA" for the letter U+00E1.
WordChars  == {"a", "b", "1", "2", "_"}
SpaceChars == {" "}

\* Compatibility decomposition, character by character.
RECURSIVE decompose(_)
decompose(t) ==
    IF t = <<>> THEN <<>>
    ELSE LET c == Head(t)
         IN  (CASE c = "NBSP" -> <<" ">>
                [] c = "FI"   -> <<"f", "i">>
                [] c = "AA"   -> <<"a", "ACUTE">>
                [] OTHER      -> <<c>>) \o decompose(Tail(t))

\* Canonical composition: a letter and the accent after it.
RECURSIVE compose(_)
compose(t) ==
    IF Len(t) < 2 THEN t
    ELSE IF t[1] = "a" /\ t[2] = "ACUTE"
         THEN <<"AA">> \o compose(Tail(Tail(t)))
         ELSE <<t[1]>> \o compose(Tail(t))

\* unicodedata.normalize('NFKC', value)
normalize_NFKC(t) == compose(decompose(t))

IsWord(c)  == c \in WordChars \cup {"f", "i", "AA"}
IsSpace(c) == c \in SpaceChars

\* re.sub(r'[^_\w\s-]', '', value)
RECURSIVE strip_unsafe(_)
strip_unsafe(t) ==
    IF t = <<>> THEN <<>>
    ELSE (IF IsWord(Head(t)) \/ IsSpace(Head(t)) \/ Head(t) = "-"
          THEN <<Head(t)>> ELSE <<>>) \o strip_unsafe(Tail(t))

\* re.sub(r'[\s]+', '_', value): each run of whitespace becomes one "_".
RECURSIVE collapse_spaces(_)
collapse_spaces(t) ==
    IF t = <<>> THEN <<>>
    ELSE IF IsSpace(Head(t))
         THEN IF Len(t) > 1 /\ IsSpace(t[2])
              THEN collapse_spaces(Tail(t))
              ELSE <<"_">> \o collapse_spaces(Tail(t))
         ELSE <<Head(t)>> \o collapse_spaces(Tail(t))

\* Mutant: the ends are left as they are.
no_strip(t) == t

\* str.strip('-_')
RECURSIVE strip_edges(_)
strip_edges(t) ==
    IF t = <<>> THEN <<>>
    ELSE IF Head(t) \in {"-", "_"} THEN strip_edges(Tail(t))
    ELSE IF t[Len(t)] \in {"-", "_"} THEN strip_edges(SubSeq(t, 1, Len(t) - 1))
    ELSE t

slugify(value) == strip_edges(collapse_spaces(strip_unsafe(normalize_NFKC(value))))

\* A remote link "/<folder>/<stem><ext>?<name>=<value>&..." is
\* [folder, stem, ext, query]: folder the sequence of its directory names,
\* query = [present, params] with present FALSE when the link has no "?".
Param(name, value) == [name |-> name, value |-> value]

\* str.replace('/attachments/', '/thumbnails/') on the directory names of a
\* slash separated path: occurrences are replaced left to right and do not
\* overlap, so the name after a replaced one has lost its leading slash.
RECURSIVE replace_attachments(_)
replace_attachments(segs) ==
    IF segs = <<>> THEN <<>>
    ELSE IF Head(segs) = "attachments"
         THEN IF Len(segs) = 1 THEN <<"thumbnails">>
              ELSE <<"thumbnails", segs[2]>> \o replace_attachments(Tail(Tail(segs)))
         ELSE <<Head(segs)>> \o replace_attachments(Tail(segs))

\* url.replace('/attachments/', '/thumbnails/')
thumbnail_url(url) == [url EXCEPT !.folder = replace_attachments(@)]

IsDigit(c) == c \in {"0", "1", "2", "3", "4", "5", "6", "7", "8", "9"}

\* \d+ at the start of a value: its leading digits.
RECURSIVE LeadingDigits(_)
LeadingDigits(t) ==
    IF t = <<>> \/ ~IsDigit(Head(t)) THEN <<>>
    ELSE <<Head(t)>> \o LeadingDigits(Tail(t))

\* Parameter names that end with "version": the look-behind of the pattern
\* (?<=version=) accepts any of them.
VersionNames == {"version"}

\* re.search('(?<=version=)\d+', details): the digits of the first parameter
\* that matches, <<>> when re.search returns None.
RECURSIVE search_version(_)
search_version(params) ==
    IF params = <<>> THEN <<>>
    ELSE IF Head(params).name \in VersionNames
            /\ LeadingDigits(Head(params).value) # <<>>
         THEN LeadingDigits(Head(params).value)
         ELSE search_version(Tail(params))

\* Mutant: a path is returned for every link.
never_raises(url) == FALSE

\* _format_attachment_filename raises when the name does not split into two
\* at "?" (ValueError) or when re.search(...) is None (AttributeError).
format_raises(url) ==
    \/ ~url.query.present
    \/ search_version(url.query.params) = <<>>

\* Mutant: the version is left out of the name.
name_without_version(url) ==
    [folder |-> url.folder,
     name   |-> slugify(url.stem) \o url.ext]

\* folder / (slug + "_version" + version + extensions)
format_attachment_filename(url) ==
    [folder |-> url.folder,
     name   |-> slugify(url.stem)
                \o <<"_", "v", "e", "r", "s", "i", "o", "n">>
                \o search_version(url.query.params)
                \o url.ext]

Digit(n) == <<"0", "1", "2", "3", "4", "5", "6", "7", "8", "9">>[n + 1]

\* int(post_ID): surrounding blanks and a sign are accepted, then digits.
RECURSIVE StripBlanks(_)
StripBlanks(t) ==
    IF t = <<>> THEN <<>>
    ELSE IF Head(t) = " " THEN StripBlanks(Tail(t))
    ELSE IF t[Len(t)] = " " THEN StripBlanks(SubSeq(t, 1, Len(t) - 1))
    ELSE t

int_parses(tok) ==
    LET t == StripBlanks(tok)
        d == IF t # <<>> /\ Head(t) \in {"+", "-"} THEN Tail(t) ELSE t
    IN  d # <<>> /\ \A i \in 1..Len(d) : IsDigit(d[i])

\* =================================================== part 2: scraper

\* ---------------------------------------------------------- remote side
Posts    == {1, 2}
Comments == {3, 4, 5, 6}
Contents == Posts \cup Comments

\* The download link Confluence reports for an attachment of item.
Url(item, stem, ext, params) ==
    [folder |-> <<"download", "attachments", item>>, stem |-> stem, ext |-> ext,
     query  |-> [present |-> TRUE, params |-> params]]

Version(v) == Param("version", v)

\* The other parameters of a download link.
Stamp == <<Param("modificationDate", <<"1">>), Param("api", <<"v", "2">>)>>

Date(y, m, d) == [year |-> y, month |-> m, day |-> d]

Nothing == [c \in Contents |-> <<>>]

\* Post 1 with comments 3 and 4, comment 5 a reply to 3 and 6 a reply to 5;
\* one attachment on the post and one on comment 3 (its link under a
\* context path), each shown by an image of the body it is attached to;
\* the body of post 1 also shows an icon.
RemoteTree ==
    LET pic1 == Url("1", <<"a", " ", "b">>, <<".", "p">>, <<Version(<<"1">>)>> \o Stamp)
        pic3 == [Url("3", <<"b">>, <<>>, <<Version(<<"2">>)>>)
                    EXCEPT !.folder = <<"wiki">> \o @]
        icon == [folder |-> <<"images", "icons">>, stem |-> <<"i">>, ext |-> <<>>,
                 query |-> [present |-> FALSE, params |-> <<>>]]
    IN  [children |-> [Nothing EXCEPT ![1] = <<3, 4>>, ![3] = <<5>>, ![5] = <<6>>],
         atts     |-> [Nothing EXCEPT ![1] = <<pic1>>, ![3] = <<pic3>>],
         imgs     |-> [Nothing EXCEPT ![1] = <<icon, pic1>>, ![3] = <<pic3>>],
         date     |-> [p \in Posts |-> IF p = 1 THEN Date(2021, 3, 1)
                                                ELSE Date(2021, 11, 15)],
         title    |-> [p \in Posts |-> IF p = 1 THEN <<"a", " ", "b">> ELSE <<"b">>]]

\* Post 2 whose comment listing is cyclic: 3 is reported under 4 and 4
\* under 3.
RemoteCycle ==
    [children |-> [Nothing EXCEPT ![2] = <<3>>, ![3] = <<4>>, ![4] = <<3>>],
     atts     |-> Nothing,
     imgs     |-> Nothing,
     date     |-> [p \in Posts |-> Date(2021, 3, 1)],
     title    |-> [p \in Posts |-> IF p = 1 THEN <<"a", "!">> ELSE <<"a">>]]

\* Post 1 with two attachments, the second link without version parameter;
\* post 2 with no attachment and an image whose link has no query.
RemoteMalformed ==
    LET bare == [folder |-> <<"download", "attachments", "2">>, stem |-> <<"a">>,
                 ext |-> <<>>, query |-> [present |-> FALSE, params |-> <<>>]]
    IN  [children |-> Nothing,
         atts     |-> [Nothing EXCEPT
                         ![1] = <<Url("1", <<"b">>, <<>>, <<Version(<<"1">>)>>),
                                  Url("1", <<"a">>, <<>>, Stamp)>>],
         imgs     |-> [Nothing EXCEPT ![2] = <<bare>>],
         date     |-> [p \in Posts |-> Date(2022, 1, 2)],
         title    |-> [p \in Posts |-> IF p = 1 THEN <<"a">> ELSE <<"b">>]]

\* Two posts created on the same day, titled "a!" and "a", without
\* comments, attachments or images.
RemoteSameDay ==
    [children |-> Nothing,
     atts     |-> Nothing,
     imgs     |-> Nothing,
     date     |-> [p \in Posts |-> Date(2021, 3, 1)],
     title    |-> [p \in Posts |-> IF p = 1 THEN <<"a", "!">> ELSE <<"a">>]]

RemoteConfigs == {"tree", "cycle", "malformed", "sameday"}

\* The remote content of this name: [children, atts, imgs, date, title].
RemoteOf(name) ==
    CASE name = "tree"  -> RemoteTree
      [] name = "cycle" -> RemoteCycle
      [] name = "sameday" -> RemoteSameDay
      [] OTHER          -> RemoteMalformed

\* The remote content the server holds.
rcfg == RemoteOf(rsel)

\* What connection.get(remote_filename) can do for an asset: answer 200
\* with the bytes, answer with a 4xx/5xx status, or raise.
DownloadOutcomes == {"ok", "status", "raise"}

\* ------------------------------------------------------------ file system
FileBody(fs, path) ==
    IF \E f \in fs : f.path = path
    THEN (CHOOSE f \in fs : f.path = path).body
    ELSE "absent"

Exists(path) == FileBody(files, path) # "absent"

\* open(local_filename, 'wb') and f.write(response.content)
WriteFile(path, body) ==
    {f \in files : f.path # path} \cup {[path |-> path, body |-> body]}

\* ---------------------------------------------------------- scrape_posts
Tokens == {<<"1">>, <<"2">>, <<"x">>}

Batches == UNION {[1..n -> Tokens] : n \in 1..MaxBatch}

\* to_numpy(dtype=str) of the ID column read by pd.read_csv.
IdToken(n) == <<Digit(n)>>

IdOf(tok) == CHOOSE n \in 0..9 : IdToken(n) = tok

NoHtml == [done |-> FALSE, blocks |-> <<>>, imgs |-> <<>>]

\* scrape_posts raises: nothing of it runs any more.
Abort(why) ==
    /\ spc' = "aborted"
    /\ cause' = why

\* The local 'posts' of scrape_posts: an id, a list of ids, or the ID
\* column of list_blogposts.csv (read_csv raises when the file is missing).
ScrapeStart ==
    /\ spc = "idle"
    /\ runs < MaxRuns
    /\ runs' = runs + 1
    /\ idx' = 1
    /\ scraped' = {} /\ fetchedFor' = {} /\ warnedFor' = {}
    /\ caught' = {}
    /\ \/ /\ \E b \in Batches : batch' = b
          /\ spc' = "loop" /\ cause' = "none"
       \/ /\ indexFile.exists
          /\ batch' = [i \in 1..Len(indexFile.rows) |-> IdToken(indexFile.rows[i])]
          /\ spc' = "loop" /\ cause' = "none"
       \/ /\ ~indexFile.exists
          /\ batch' = <<>>
          /\ Abort("FileNotFoundError")
    /\ UNCHANGED <<rsel, files, docs, indexHtml, step, items, cur, stack, work,
                   wi, html, attempts, written>>
    /\ UNCHANGED <<lvars, pvars>>

\* Mutant: the document is rendered before the post's attachments are
\* materialized.
RenderBeforeAttachments == <<"comments", "format", "attlist", "export">>

\* BlogPost.scrape_post: the order of its four steps.
ScrapePostSteps == <<"attlist", "comments", "format", "export">>

\* The step of scrape_post after step k ends, or the end of the loop body.
AfterPostStep(k) ==
    IF k < Len(ScrapePostSteps)
    THEN /\ step' = k + 1
         /\ spc' = ScrapePostSteps[k + 1]
         /\ UNCHANGED <<idx, scraped>>
    ELSE /\ step' = 0
         /\ spc' = "loop"
         /\ idx' = idx + 1
         /\ scraped' = scraped \cup {idx}

\* The except clause of the id check: self.blog._warn(...) on a Blog, which
\* has no attribute 'blog'.
SkipInvalid == [site |-> "id", warned |-> FALSE, raises |-> TRUE]

NewItem(id, kind, depth, parent) ==
    [ID |-> id, kind |-> kind, depth |-> depth, parent |-> parent,
     attDone |-> FALSE, done |-> FALSE]

\* One turn of the for loop up to the first request of the post:
\* int(post_ID), then BlogPost(self, ID) with its _scrape_info request.
LoopStep ==
    /\ spc = "loop"
    /\ idx <= Len(batch)
    /\ IF ~int_parses(batch[idx])
       THEN /\ warnedFor' = IF SkipInvalid.warned THEN warnedFor \cup {idx}
                                                  ELSE warnedFor
            /\ IF SkipInvalid.raises
               THEN Abort("AttributeError") /\ UNCHANGED idx
               ELSE idx' = idx + 1 /\ UNCHANGED <<spc, cause>>
            /\ caught' = caught \cup {[site   |-> SkipInvalid.site,
                                         warned |-> SkipInvalid.warned]}
            /\ UNCHANGED <<step, items, cur, html, written, fetchedFor>>
       ELSE /\ fetchedFor' = fetchedFor \cup {idx}
            /\ UNCHANGED <<warnedFor, idx, caught>>
            /\ \/ /\ items' = <<NewItem(IdOf(batch[idx]), "post", 0, 0)>>
                  /\ cur' = 1
                  /\ html' = NoHtml
                  /\ written' = FALSE
                  /\ step' = 1
                  /\ spc' = ScrapePostSteps[1]
                  /\ UNCHANGED cause
               \/ /\ Abort("TransportError")
                  /\ UNCHANGED <<step, items, cur, html, written>>
    /\ UNCHANGED <<rsel, files, docs, indexHtml, batch, stack, work, wi, runs,
                   attempts, scraped>>
    /\ UNCHANGED <<lvars, pvars>>

\* ------------------------------------------------- _scrape_attachments
\* The links the two nested for loops walk: each attachment's download
\* link, then its thumbnail link.
RECURSIVE AssetLinks(_)
AssetLinks(atts) ==
    IF atts = <<>> THEN <<>>
    ELSE <<Head(atts), thumbnail_url(Head(atts))>> \o AssetLinks(Tail(atts))

\* Mutant: the download is made whether or not the local file exists.
AlwaysDownload(path) == TRUE

\* if not local_filename.exists()
ShouldDownload(path) == ~Exists(path)

\* The try block for a file that is not there: connection.get, then the
\* response's content is written whatever its status; an exception is
\* caught and reported by _warn.
Download(path, o) ==
    [files  |-> IF o = "raise" THEN files
                ELSE WriteFile(path, IF o = "ok" THEN "asset" ELSE "error page"),
     warned |-> o = "raise",
     caught |-> IF o = "raise" THEN {[site |-> "asset", warned |-> TRUE]} ELSE {}]

\* The request for the attachment listing of the running object.
AttList ==
    /\ spc = "attlist"
    /\ \/ /\ work' = AssetLinks(rcfg.atts[items[cur].ID])
          /\ wi' = 1
          /\ attempts' = <<>>
          /\ spc' = "asset"
          /\ UNCHANGED cause
       \/ /\ Abort("TransportError")
          /\ UNCHANGED <<work, wi, attempts>>
    /\ UNCHANGED <<rsel, files, docs, indexHtml, batch, idx, step, items, cur,
                   stack, html, runs, written, scraped, fetchedFor, warnedFor>>
    /\ UNCHANGED caught
    /\ UNCHANGED <<lvars, pvars>>

\* One asset link: its local path, then the try block.
Asset ==
    /\ spc = "asset"
    /\ wi <= Len(work)
    /\ LET url == work[wi]
           path == format_attachment_filename(url)
       IN  IF format_raises(url)
           THEN /\ Abort("MalformedURL")
                /\ UNCHANGED <<files, wi, attempts, caught>>
           ELSE /\ wi' = wi + 1
                /\ UNCHANGED <<spc, cause>>
                /\ IF ShouldDownload(path)
                   THEN \E o \in DownloadOutcomes :
                          /\ files' = Download(path, o).files
                          /\ caught' = caught \cup Download(path, o).caught
                          /\ attempts' = Append(attempts,
                                [path |-> path,
                                 before |-> FileBody(files, path),
                                 after |-> FileBody(Download(path, o).files, path),
                                 requested |-> TRUE, result |-> o,
                                 warned |-> Download(path, o).warned])
                   ELSE /\ UNCHANGED <<files, caught>>
                        /\ attempts' = Append(attempts,
                                [path |-> path,
                                 before |-> FileBody(files, path),
                                 after |-> FileBody(files, path),
                                 requested |-> FALSE, result |-> "present",
                                 warned |-> FALSE])
    /\ UNCHANGED <<rsel, docs, indexHtml, batch, idx, step, items, cur, stack,
                   work, html, runs, written, scraped, fetchedFor, warnedFor>>
    /\ UNCHANGED <<lvars, pvars>>

\* _scrape_attachments returns: to scrape_post for a post, to the next
\* statement of Comment.__init__ for a comment.
AttDone ==
    /\ spc = "asset"
    /\ wi > Len(work)
    /\ items' = [items EXCEPT ![cur].attDone = TRUE]
    /\ IF items[cur].kind = "post"
       THEN AfterPostStep(step)
       ELSE spc' = "comments" /\ UNCHANGED <<step, idx, scraped>>
    /\ UNCHANGED <<rsel, files, docs, indexHtml, batch, cur, stack, work, wi,
                   html, runs, attempts, written, fetchedFor, warnedFor, cause>>
    /\ UNCHANGED caught
    /\ UNCHANGED <<lvars, pvars>>

\* ---------------------------------------------------- _scrape_comments
\* Mutant: a reply gets the depth of the comment it answers.
SameDepth(item) == IF item.kind = "post" THEN 0 ELSE item.depth

\* depth = 0 if isinstance(self, BlogPost) else self.depth + 1
ChildDepth(item) == IF item.kind = "post" THEN 0 ELSE item.depth + 1

\* The request for the child comments of the running object, and the
\* entry into the list comprehension.
CommentList ==
    /\ spc = "comments"
    /\ \/ /\ Len(stack) < RecursionLimit
          /\ stack' = Append(stack, [self    |-> cur,
                                     depth   |-> ChildDepth(items[cur]),
                                     results |-> rcfg.children[items[cur].ID],
                                     i       |-> 1])
          /\ spc' = "children"
          /\ UNCHANGED cause
       \/ /\ Len(stack) >= RecursionLimit
          /\ Abort("RecursionError")
          /\ UNCHANGED stack
       \/ /\ Abort("TransportError")
          /\ UNCHANGED stack
    /\ UNCHANGED <<rsel, files, docs, indexHtml, batch, idx, step, items, cur,
                   work, wi, html, runs, attempts, written, scraped,
                   fetchedFor, warnedFor>>
    /\ UNCHANGED caught
    /\ UNCHANGED <<lvars, pvars>>

\* Comment(self, post['id'], depth) for the next result: ConfluenceObject.
\* __init__ with its _scrape_info request, then self.depth = depth.
CommentNew ==
    /\ spc = "children"
    /\ LET f == stack[Len(stack)]
       IN  /\ f.i <= Len(f.results)
           /\ \/ /\ items' = Append(items,
                                NewItem(f.results[f.i], "comment", f.depth, f.self))
                 /\ cur' = Len(items) + 1
                 /\ spc' = "attlist"
                 /\ UNCHANGED cause
              \/ /\ Abort("TransportError")
                 /\ UNCHANGED <<items, cur>>
    /\ UNCHANGED <<rsel, files, docs, indexHtml, batch, idx, step, stack, work,
                   wi, html, runs, attempts, written, scraped, fetchedFor,
                   warnedFor>>
    /\ UNCHANGED caught
    /\ UNCHANGED <<lvars, pvars>>

\* The list comprehension is exhausted: _scrape_comments returns, to
\* scrape_post for the post, into the caller's comprehension for a comment.
CommentsDone ==
    /\ spc = "children"
    /\ LET f == stack[Len(stack)]
           rest == SubSeq(stack, 1, Len(stack) - 1)
       IN  /\ f.i > Len(f.results)
           /\ items' = [items EXCEPT ![f.self].done = TRUE]
           /\ IF items[f.self].kind = "post"
              THEN /\ stack' = rest
                   /\ cur' = f.self
                   /\ AfterPostStep(step)
              ELSE /\ stack' = [rest EXCEPT ![Len(rest)].i = @ + 1]
                   /\ cur' = rest[Len(rest)].self
                   /\ UNCHANGED <<spc, step, idx, scraped>>
    /\ UNCHANGED <<rsel, files, docs, indexHtml, batch, work, wi, html, runs,
                   attempts, written, fetchedFor, warnedFor, cause>>
    /\ UNCHANGED caught
    /\ UNCHANGED <<lvars, pvars>>

\* ------------------------------------------------------- _format_html
\* The items built under items[p], in the order of p.comments.
ChildrenOf(p) == {k \in 1..Len(items) : items[k].parent = p}

\* id=f'#comment-{comment.ID}': the id attribute of the comment's anchor.
id_tag(ID) == <<"#", "comment-", Digit(ID)>>

\* href=f'#comment-{parent.ID}': the target of the link to the parent.
parent_tag(ID) == <<"#", "comment-", Digit(ID)>>

\* The article of comment items[k] of parent items[p]: its left margin in
\* em, the id of its anchor and, below the top level, the link to parent.
article(p, k) ==
    [ID         |-> items[k].ID,
     margin     |-> items[k].depth * 2,
     id_tag     |-> id_tag(items[k].ID),
     parent_tag |-> IF items[k].depth > 0
                    THEN <<parent_tag(items[p].ID)>> ELSE <<>>]

\* _format_comments(parent, soup): one article per comment of parent, each
\* followed by the articles of its own comments.  The comments of one
\* parent are walked in list order, which is their order of construction.
RECURSIVE format_comments(_, _)
\* Mutant: the comments of one parent first, their own comments after.
siblings_first(p, from) ==
    LET later == {k \in ChildrenOf(p) : k >= from}
    IN  IF later = {} THEN <<>>
        ELSE LET k == CHOOSE m \in later : \A n \in later : m <= n
             IN  <<article(p, k)>>
                 \o format_comments(p, k + 1)
                 \o format_comments(k, 1)

format_comments(p, from) ==
    LET later == {k \in ChildrenOf(p) : k >= from}
    IN  IF later = {} THEN <<>>
        ELSE LET k == CHOOSE m \in later : \A n \in later : m <= n
             IN  <<article(p, k)>>
                 \o format_comments(k, 1)
                 \o format_comments(p, k + 1)

\* The img elements of the assembled document, in document order: those of
\* the post's body, then those of each comment's body.
RECURSIVE BodyImgs(_)
BodyImgs(blocks) ==
    IF blocks = <<>> THEN <<>>
    ELSE rcfg.imgs[Head(blocks).ID] \o BodyImgs(Tail(blocks))

\* find_all('img', attrs={'data-image-src': re.compile(
\* '/download/attachments/.*')}): the pattern is searched for in the value.
img_matches(url) ==
    \E i \in 1..(Len(url.folder) - 1) :
        url.folder[i] = "download" /\ url.folder[i + 1] = "attachments"

NoPath == [folder |-> <<>>, name |-> <<>>]

\* Mutant: the image source is the full asset, not its thumbnail.
SmallIsBig(big) == big

\* small = str(big).replace('/attachments/', '/thumbnails/')
small_of(big) == [big EXCEPT !.folder = replace_attachments(@)]

\* One img element after the loop over imgs: left as it is, or replaced
\* by a link to big wrapping an img of small.
rewrite_img(url) ==
    IF ~img_matches(url)
    THEN [of |-> url, wrapped |-> FALSE, href |-> NoPath, src |-> NoPath]
    ELSE LET path == format_attachment_filename(url)
             big  == [path EXCEPT !.folder = <<"..">> \o @]
         IN  [of |-> url, wrapped |-> TRUE, href |-> big, src |-> small_of(big)]

\* _format_html reads self.comments, which _scrape_comments sets; the loop
\* over imgs raises at the first matching link without version.
Format ==
    /\ spc = "format"
    /\ IF ~items[1].done
       THEN /\ Abort("AttributeError")
            /\ UNCHANGED <<html, step, idx, scraped>>
       ELSE LET blocks == format_comments(1, 1)
                imgs   == rcfg.imgs[items[1].ID] \o BodyImgs(blocks)
            IN  IF \E i \in 1..Len(imgs) :
                      img_matches(imgs[i]) /\ format_raises(imgs[i])
                THEN /\ Abort("MalformedURL")
                     /\ UNCHANGED <<html, step, idx, scraped>>
                ELSE /\ html' = [done   |-> TRUE,
                                 blocks |-> blocks,
                                 imgs   |-> [i \in 1..Len(imgs) |-> rewrite_img(imgs[i])]]
                     /\ AfterPostStep(step)
                     /\ UNCHANGED cause
    /\ UNCHANGED <<rsel, files, docs, indexHtml, batch, items, cur, stack, work,
                   wi, runs, attempts, written, fetchedFor, warnedFor>>
    /\ UNCHANGED caught
    /\ UNCHANGED <<lvars, pvars>>

\* ------------------------------------------------------- _export_html
\* Two decimal digits of n, zero padded.
Pad2(n) == <<Digit(n \div 10), Digit(n % 10)>>

\* datetime.date(...).isoformat(): YYYY-MM-DD
isoformat(date) ==
    Pad2(date.year \div 100) \o Pad2(date.year % 100) \o <<"-">>
    \o Pad2(date.month) \o <<"-">> \o Pad2(date.day)

\* f"{date}_{slug}.html"
FileName(date, slug) ==
    isoformat(date) \o <<"_">> \o slug \o <<".", "h", "t", "m", "l">>

\* f"{self.date}_{self._slugify(self.title)}.html"
DocName(post) == FileName(rcfg.date[post], slugify(rcfg.title[post]))

\* _export_html writes self.html, which _format_html sets.
Export ==
    /\ spc = "export"
    /\ IF html.done
       THEN /\ docs' = {d \in docs : d.name # DocName(items[1].ID)}
                       \cup {[name   |-> DocName(items[1].ID),
                              post   |-> items[1].ID,
                              blocks |-> html.blocks]}
            /\ written' = TRUE
            /\ AfterPostStep(step)
            /\ UNCHANGED cause
       ELSE /\ Abort("AttributeError")
            /\ UNCHANGED <<docs, written, step, idx, scraped>>
    /\ UNCHANGED <<rsel, files, indexHtml, batch, items, cur, stack, work, wi,
                   html, runs, attempts, fetchedFor, warnedFor>>
    /\ UNCHANGED caught
    /\ UNCHANGED <<lvars, pvars>>

\* -------------------------------------------------------- create_index
\* The characters of a document name in the order of their code points.
CharOrder ==
    <<"-", ".", "0", "1", "2", "3", "4", "5", "6", "7", "8", "9", "_",
      "a", "b", "f", "h", "i", "l", "m", "t">>

Code(c) == CHOOSE k \in 1..Len(CharOrder) : CharOrder[k] = c

\* s < t on str
RECURSIVE TextLess(_, _)
TextLess(s, t) ==
    IF t = <<>> THEN FALSE
    ELSE IF s = <<>> THEN TRUE
    ELSE IF Head(s) = Head(t) THEN TextLess(Tail(s), Tail(t))
    ELSE Code(Head(s)) < Code(Head(t))

\* sorted(self.folder.joinpath('blog').iterdir())
RECURSIVE sorted(_)
sorted(names) ==
    IF names = {} THEN <<>>
    ELSE LET first == CHOOSE x \in names : \A y \in names \ {x} : TextLess(x, y)
         IN  <<first>> \o sorted(names \ {first})

\* The number a field of decimal digits stands for.
RECURSIVE ParseInt(_)
ParseInt(t) ==
    IF t = <<>> THEN 0
    ELSE 10 * ParseInt(SubSeq(t, 1, Len(t) - 1))
         + (CHOOSE n \in 0..9 : Digit(n) = t[Len(t)])

\* datetime.datetime.strptime(post.name[:10], '%Y-%m-%d')
strptime(name) ==
    [year  |-> ParseInt(SubSeq(name, 1, 4)),
     month |-> ParseInt(SubSeq(name, 6, 7)),
     day   |-> ParseInt(SubSeq(name, 9, 10))]

Heading(tag, text) == [tag |-> tag, text |-> text, items |-> <<>>]

UlTag(lis) == [tag |-> "ul", text |-> 0, items |-> lis]

\* Mutant: a new group is opened when the month name changes only.
MonthOnly(new_year, new_month, year, month) == new_month # month

\* if new_month != month or new_year != year
new_group(new_year, new_month, year, month) ==
    new_month # month \/ new_year # year

\* The for loop of create_index over the sorted names: what main holds
\* once the last ul is appended.  year and month are 0 for None.
RECURSIVE index_loop(_, _, _, _, _)
index_loop(names, year, month, main, ul) ==
    IF names = <<>> THEN Append(main, UlTag(ul))
    ELSE LET post      == Head(names)
             date      == strptime(post)
             new_year  == date.year
             new_month == date.month
             turn      == new_group(new_year, new_month, year, month)
             closed    == IF turn /\ Len(ul) > 0
                          THEN Append(main, UlTag(ul)) ELSE main
             yeared    == IF turn /\ new_year # year
                          THEN Append(closed, Heading("h2", new_year)) ELSE closed
             monthed   == IF turn
                          THEN Append(yeared, Heading("h3", new_month)) ELSE yeared
         IN  index_loop(Tail(names),
                        IF turn THEN new_year ELSE year,
                        IF turn THEN new_month ELSE month,
                        monthed,
                        Append(IF turn THEN <<>> ELSE ul, post))

\* main of index.html for the documents of the blog folder.
create_index(names) == index_loop(sorted(names), 0, 0, <<>>, <<>>)

NoIndex == [exists |-> FALSE, title |-> "none", main |-> <<>>]

\* The except clause of the space-name lookup: the space key is used and
\* nothing is printed or logged.
SpaceFallback == [site |-> "space", warned |-> FALSE]

\* The for loop of scrape_posts is exhausted: create_index asks for the
\* name of the space, lists the blog folder (iterdir raises when no
\* document was ever exported) and writes index.html.
LoopEnd ==
    /\ spc = "loop"
    /\ idx > Len(batch)
    /\ \E answered \in BOOLEAN :
          /\ caught' = IF answered THEN caught ELSE caught \cup {SpaceFallback}
          /\ IF docs = {}
             THEN /\ Abort("FileNotFoundError")
                  /\ UNCHANGED indexHtml
             ELSE /\ indexHtml' =
                        [exists |-> TRUE,
                         title  |-> IF answered THEN "name" ELSE "space",
                         main   |-> create_index({d.name : d \in docs})]
                  /\ spc' = "done"
                  /\ UNCHANGED cause
    /\ UNCHANGED <<rsel, files, docs, batch, idx, step, items, cur, stack, work,
                   wi, html, runs, attempts, written, scraped, fetchedFor,
                   warnedFor>>
    /\ UNCHANGED <<lvars, pvars>>

\* scrape_posts has returned or raised to its caller: its locals are gone.
ScrapeReturn ==
    /\ spc \in {"done", "aborted"}
    /\ spc' = "idle"
    /\ batch' = <<>> /\ idx' = 0 /\ step' = 0
    /\ items' = <<>> /\ cur' = 0 /\ stack' = <<>>
    /\ work' = <<>> /\ wi' = 0
    /\ html' = NoHtml
    /\ attempts' = <<>> /\ written' = FALSE
    /\ scraped' = {} /\ fetchedFor' = {} /\ warnedFor' = {}
    /\ cause' = "none"
    /\ caught' = {}
    /\ UNCHANGED <<rsel, files, docs, indexHtml, runs>>
    /\ UNCHANGED <<lvars, pvars>>

InitScrape ==
    /\ rsel \in RemoteConfigs
    /\ files = {}
    /\ docs = {}
    /\ indexHtml = NoIndex
    /\ batch = <<>> /\ idx = 0 /\ spc = "idle" /\ step = 0
    /\ items = <<>> /\ cur = 0 /\ stack = <<>>
    /\ work = <<>> /\ wi = 0
    /\ html = NoHtml
    /\ runs = 0
    /\ attempts = <<>> /\ written = FALSE
    /\ scraped = {} /\ fetchedFor = {} /\ warnedFor = {}
    /\ cause = "none"
    /\ caught = {}

NextScrape ==
    \/ ScrapeStart \/ LoopStep \/ AttList \/ Asset \/ AttDone
    \/ CommentList \/ CommentNew \/ CommentsDone
    \/ Format \/ Export \/ LoopEnd \/ ScrapeReturn

\* No function has been applied on its own.
NotApplied == fn = "none" /\ arg = <<>> /\ res = <<>>

\* The scraper, over a local folder that holds no index file or the one a
\* listing of two posts left.
InitForScrape ==
    /\ InitScrape
    /\ remote = <<2, 1>> /\ pageLimit = 1 /\ posts = <<>>
    /\ indexFile \in {[exists |-> FALSE, rows |-> <<>>],
                      [exists |-> TRUE, rows |-> <<2, 1>>]}
    /\ lpc = "idle" /\ content = NoContent /\ merge = TRUE
    /\ settings = NoSettings /\ calls = 0 /\ dupWarned = FALSE
    /\ base = 0 /\ fetched = <<>> /\ trail = <<>> /\ outcome = "none"
    /\ NotApplied

SpecScrape == InitForScrape /\ [][NextScrape]_vars

\* The lister, with the scraper at rest.
InitForList == InitList /\ InitScrape /\ rsel = "tree" /\ NotApplied

SpecList == InitForList /\ [][NextList]_vars

\* ========================================= part 3: functions on their own
\* Each action applies one function of the program to arguments drawn
\* from a bounded set, once, and records what it returned.

\* ------------------------------------------------------- the index merge
RowIds == {1, 2, 3}

RowSeqs == UNION {[1..n -> RowIds] : n \in 0..MaxRows}

\* export_list(merge=True) with buffer buf over a stored index of rows.
merge_index(buf, rows) ==
    export_list(buf, [exists |-> TRUE, rows |-> rows], TRUE).rows

ApplyMerge ==
    /\ fn = "none"
    /\ \E A \in RowSeqs, B \in RowSeqs, C \in RowSeqs :
          /\ arg' = [A |-> A, B |-> B, C |-> C]
          /\ res' = [left    |-> merge_index(merge_index(A, B), C),
                     right   |-> merge_index(A, merge_index(B, C)),
                     swapped |-> merge_index(B, merge_index(A, C)),
                     again   |-> merge_index(A, merge_index(A, merge_index(B, C)))]
    /\ fn' = "merge"
    /\ UNCHANGED <<lvars, svars>>

\* ------------------------------------------- _format_attachment_filename
LinkFolders == {<<"download", "attachments", "1">>,
                <<"download", "thumbnails", "1">>}
LinkStems   == {<<"a">>, <<"a", " ", "b">>, <<"a", "!">>}
LinkExts    == {<<>>, <<".", "p">>}
LinkVersions == {<<"1">>, <<"2">>, <<"1", "2">>}

LinkQueries ==
    {[present |-> FALSE, params |-> <<>>],
     [present |-> TRUE, params |-> Stamp],
     [present |-> TRUE, params |-> <<Version(<<"x">>)>>]}
    \cup {[present |-> TRUE, params |-> <<Version(v)>>] : v \in LinkVersions}
    \cup {[present |-> TRUE, params |-> <<Version(v)>> \o Stamp] : v \in LinkVersions}

Links ==
    {[folder |-> f, stem |-> s, ext |-> e, query |-> q] :
        f \in LinkFolders, s \in LinkStems, e \in LinkExts, q \in LinkQueries}

\* What a call of _format_attachment_filename gives: the path, or raised.
format_result(url) ==
    IF format_raises(url)
    THEN [raised |-> TRUE, path |-> NoPath]
    ELSE [raised |-> FALSE, path |-> format_attachment_filename(url)]

ApplyFormat ==
    /\ fn = "none"
    /\ \E u1 \in Links, u2 \in Links :
          /\ arg' = <<u1, u2>>
          /\ res' = <<format_result(u1), format_result(u2)>>
    /\ fn' = "format"
    /\ UNCHANGED <<lvars, svars>>

\* ----------------------------------------------------------- create_index
IndexDates == {Date(y, m, d) : y \in {2021, 2022}, m \in {3, 11}, d \in {1, 15}}

IndexNames == {FileName(d, s) : d \in IndexDates, s \in {<<"a">>, <<"a", "_", "b">>}}

ApplyIndex ==
    /\ fn = "none"
    /\ \E names \in SUBSET IndexNames :
          /\ Cardinality(names) <= MaxDocs
          /\ arg' = names
          /\ res' = create_index(names)
    /\ fn' = "index"
    /\ UNCHANGED <<lvars, svars>>

\* -------------------------------------------------------- test_connection
Statuses == {200, 201, 401, 404}

\* response.ok
ok(status) == status < 400

\* test_connection(verbose) for a response of this status whose body is
\* decodable json or not: return False stands inside 'if verbose'.
test_connection(status, decodable, verbose) ==
    IF status = 200 /\ ~decodable /\ verbose
    THEN FALSE
    ELSE ok(status)

ApplyConnection ==
    /\ fn = "none"
    /\ \E status \in Statuses, decodable \in BOOLEAN, verbose \in BOOLEAN :
          /\ arg' = [status |-> status, decodable |-> decodable, verbose |-> verbose]
          /\ res' = test_connection(status, decodable, verbose)
    /\ fn' = "connection"
    /\ UNCHANGED <<lvars, svars>>

\* ---------------------------------------------------------------- _slugify
Alphabet == {"a", "1", "_", "-", " ", "!", "NBSP", "FI", "ACUTE"}

Texts == UNION {[1..n -> Alphabet] : n \in 0..MaxLen}

ApplySlugify ==
    /\ fn = "none"
    /\ \E value \in Texts :
          /\ arg' = value
          /\ res' = [out |-> slugify(value), again |-> slugify(slugify(value))]
    /\ fn' = "slugify"
    /\ UNCHANGED <<lvars, svars>>

NextApply ==
    ApplyMerge \/ ApplyFormat \/ ApplyIndex \/ ApplyConnection \/ ApplySlugify

InitForApply == InitForList /\ pageLimit = 1

SpecApply == InitForApply /\ [][NextApply]_vars

\* ======================================================= lister claims
Appended == SubSeq(posts, base + 1, Len(posts))

IsUnique(rows) == \A i, j \in 1..Len(rows) : rows[i] = rows[j] => i = j

\* C1: when a page request raises after one or more pages were fetched,
\* export_list has still run when scrape_list exits: the index file exists
\* as soon as the buffer is not empty, and the ID of every entry of the
\* buffer is a row of it.
C1_FlushOnFailure ==
    (lpc = "done" /\ outcome = "raised" /\ Len(fetched) >= 1 /\ Len(posts) > 0)
        => /\ indexFile.exists
           /\ \A i \in 1..Len(posts) : posts[i] \in Ids(indexFile.rows)

\* C1 witness: a call that appended two pages of entries and then raised.
C1_Witness ==
    /\ lpc = "done" /\ outcome = "raised"
    /\ Len(fetched) >= 2
    /\ Len(Appended) >= 2
    /\ indexFile.exists

\* C2: after every export_list call the persisted index file holds each ID
\* exactly once.
C2_IndexIdsUnique == indexFile.exists => IsUnique(indexFile.rows)

\* C9: the next page is requested exactly when the page just appended has
\* a next link and the stop predicate is false on it; the loop is left at
\* the first page without a next link or with the predicate true; what the
\* call appended to the buffer is the concatenation, in order, of the
\* results of the pages it fetched, each once.
C9_PaginationLoop ==
    /\ \A i \in 1..Len(trail) :
          trail[i].issued <=> (trail[i].hasNext /\ ~trail[i].stop)
    /\ lpc = "page" =>
          /\ \A i \in 1..Len(trail) : trail[i].issued
          /\ Len(fetched) = Len(trail) + 1
          /\ Appended = Flatten(SubSeq(fetched, 1, Len(trail)))
    /\ (lpc = "done" /\ outcome = "returned") =>
          /\ Len(trail) >= 1
          /\ \A i \in 1..Len(trail) : trail[i].issued <=> i < Len(trail)
          /\ Len(fetched) = Len(trail)
          /\ Appended = Flatten(fetched)
    /\ (lpc = "done" /\ outcome = "raised") =>
          /\ \A i \in 1..Len(trail) : trail[i].issued
          /\ Len(fetched) = Len(trail)
          /\ Appended = Flatten(fetched)

\* C9 witness: a call that returned after three pages, stopped by the
\* predicate while a next link was present.
C9_Witness ==
    /\ lpc = "done" /\ outcome = "returned"
    /\ Len(fetched) >= 2
    /\ trail[Len(trail)].hasNext /\ trail[Len(trail)].stop
    /\ Len(Appended) >= 2

\* C10: with settings.end configured, no entry whose position in the remote
\* listing lies beyond end is appended to the buffer.
C10_NothingBeyondEnd ==
    settings.hasEnd =>
        \A i \in 1..Len(trail) :
            trail[i].size > 0 => trail[i].start + trail[i].size - 1 <= settings.end

\* ====================================================== scraper claims
Ended == spc \in {"done", "aborted"}

Valid(i) == int_parses(batch[i])

\* C3: when scraping one id of a batch fails, every other valid id of the
\* batch is still scraped and its document exported.
C3_ItemFailureContained ==
    (spc = "aborted" /\ cause = "TransportError")
        => \A i \in 1..Len(batch) : (i # idx /\ Valid(i)) => i \in scraped

\* C4: an id that does not parse as an integer is skipped with a warning
\* and without a fetch, every later valid id is still scraped, and the
\* index is rebuilt at the end (stated for runs in which no scrape of a
\* valid id failed).
C4_InvalidIdSkipped ==
    (Ended /\ cause \in {"none", "AttributeError"})
        => \A i \in 1..Len(batch) :
              ~Valid(i) =>
                 /\ i \in warnedFor
                 /\ i \notin fetchedFor
                 /\ \A j \in (i + 1)..Len(batch) : Valid(j) => j \in scraped
                 /\ spc = "done"

Failed(a) == a.result \in {"raise", "status"}

\* C5: a failure while obtaining one asset (the request raises, or is
\* answered with a 4xx/5xx status) is reported as a skip of that asset,
\* and the loop goes on to the assets after it.
C5_AssetFailureSkipped ==
    \A k \in 1..Len(attempts) :
        Failed(attempts[k]) => (attempts[k].warned /\ wi > k)

\* C6: no download request is made for an asset whose local file exists,
\* and a file that exists is the same after the attempt as before it.
C6_PresentFilesUntouched ==
    \A k \in 1..Len(attempts) :
        attempts[k].before # "absent"
            => (~attempts[k].requested /\ attempts[k].after = attempts[k].before)

\* C6 witness: the second scrape of a post in one batch found both assets
\* of its attachment on disk and requested neither.
C6_Witness ==
    /\ idx = 2 /\ cur = 1 /\ Len(attempts) = 2
    /\ \A k \in 1..2 : attempts[k].before = "asset" /\ ~attempts[k].requested

\* C7: a comment fetched directly under the post has depth 0, and any
\* other comment has the depth of the comment it was fetched under plus 1.
C7_DepthInvariant ==
    \A k \in 1..Len(items) :
        items[k].kind = "comment" =>
            LET p == items[items[k].parent]
            IN  items[k].depth = IF p.kind = "post" THEN 0 ELSE p.depth + 1

\* C7 witness: the whole tree of post 1 is built, with comments at depths
\* 0, 1 and 2.
C7_Witness ==
    /\ rcfg = RemoteTree /\ Len(items) = 5 /\ items[1].done
    /\ \A d \in 0..2 : \E k \in 1..Len(items) :
          items[k].kind = "comment" /\ items[k].depth = d

\* C8: when the document of a post is rendered, the comment tree has been
\* built whole and the attachments of the post and of every comment of the
\* tree have been materialized; the document is written only once it is
\* rendered.
C8_StepsInOrder ==
    /\ html.done =>
          /\ stack = <<>>
          /\ \A k \in 1..Len(items) :
                /\ items[k].attDone
                /\ items[k].done
                /\ Cardinality(ChildrenOf(k)) = Len(rcfg.children[items[k].ID])
    /\ written => html.done

\* C8 witness: the document of a post with four comments has been written.
C8_Witness == written /\ html.done /\ Len(items) = 5 /\ Len(html.blocks) = 4

\* ============================================ claims on single functions
\* C11: for any batches A, B, C the index merge gives the same set of ids
\* in either grouping (A with B, then into C; or A into the merge of B and
\* C) and in either order of A and B, namely the ids of A, B and C together;
\* and merging A once more into an index that holds it leaves the id set
\* as it was.
C11_MergeIdSets ==
    fn = "merge" =>
        LET all == Ids(arg.A) \cup Ids(arg.B) \cup Ids(arg.C)
        IN  /\ Ids(res.left) = Ids(res.right)
            /\ Ids(res.swapped) = Ids(res.right)
            /\ Ids(res.right) = all
            /\ Ids(res.again) = Ids(res.right)

\* C11 witness: three batches that overlap pairwise, A listing an id twice,
\* for which the two orders give different rows but the same ids.
C11_Witness ==
    /\ fn = "merge"
    /\ Ids(arg.A) \cap Ids(arg.B) # {}
    /\ Ids(arg.B) \cap Ids(arg.C) # {}
    /\ ~IsUnique(arg.A)
    /\ res.swapped # res.right
    /\ Cardinality(Ids(res.right)) = 3

\* Two links that are the same but for the value of their version
\* parameter.
DifferOnlyInVersion(u1, u2) ==
    /\ u1.folder = u2.folder /\ u1.stem = u2.stem /\ u1.ext = u2.ext
    /\ u1.query.present /\ u2.query.present
    /\ Len(u1.query.params) = Len(u2.query.params)
    /\ \A i \in 1..Len(u1.query.params) :
          /\ u1.query.params[i].name = u2.query.params[i].name
          /\ u1.query.params[i].name # "version"
                => u1.query.params[i].value = u2.query.params[i].value
    /\ \E i \in 1..Len(u1.query.params) :
          /\ u1.query.params[i].name = "version"
          /\ u1.query.params[i].value # u2.query.params[i].value

NoVersionParam(url) ==
    \/ ~url.query.present
    \/ \A i \in 1..Len(url.query.params) : url.query.params[i].name # "version"

\* The asset links of a remote content that carry a version, thumbnail
\* links included.
VersionedLinks(cfg) ==
    {u \in UNION {Ids(AssetLinks(cfg.atts[c])) : c \in Contents} :
        ~NoVersionParam(u)}

\* The local paths of those links, per remote content.
VersionedPaths ==
    [name \in RemoteConfigs |->
        {format_attachment_filename(u) : u \in VersionedLinks(RemoteOf(name))}]

TagsAt(main, tag) == {k \in 1..Len(main) : main[k].tag = tag}

\* The year heading the element at k stands under.
YearAt(main, k) ==
    LET before == {j \in TagsAt(main, "h2") : j < k}
    IN  main[CHOOSE j \in before : \A h \in before : h <= j].text

\* The (year, month) pairs of the month headings, in document order.
RECURSIVE MonthHeadings(_, _)
MonthHeadings(main, k) ==
    IF k > Len(main) THEN <<>>
    ELSE (IF main[k].tag = "h3" THEN <<<<YearAt(main, k), main[k].text>>>> ELSE <<>>)
         \o MonthHeadings(main, k + 1)

\* The names listed, in document order.
RECURSIVE Listed(_)
Listed(main) ==
    IF main = <<>> THEN <<>> ELSE Head(main).items \o Listed(Tail(main))

\* C14: over a set of documents named with an ISO date, main holds one
\* year heading per year and one month heading per (year, month), both in
\* ascending order; every month heading stands under the heading of its
\* year and is followed by one list; every document is listed exactly
\* once, in the list under the heading of its own year and month, and each
\* list is in the order of the file names.
C14_IndexGrouping ==
    fn = "index" =>
        LET main   == res
            months == MonthHeadings(main, 1)
            listed == Listed(main)
        IN  /\ \A k \in TagsAt(main, "h2") :
                  /\ k < Len(main) /\ main[k + 1].tag = "h3"
                  /\ \A j \in TagsAt(main, "h2") : j < k => main[j].text < main[k].text
            /\ {main[k].text : k \in TagsAt(main, "h2")}
                  = {strptime(n).year : n \in arg}
            /\ \A k \in TagsAt(main, "h3") :
                  /\ TagsAt(main, "h2") \cap 1..k # {}
                  /\ k < Len(main) /\ main[k + 1].tag = "ul"
            /\ \A i, j \in 1..Len(months) :
                  i < j => \/ months[i][1] < months[j][1]
                           \/ months[i][1] = months[j][1] /\ months[i][2] < months[j][2]
            /\ {months[i] : i \in 1..Len(months)}
                  = {<<strptime(n).year, strptime(n).month>> : n \in arg}
            /\ \A k \in TagsAt(main, "ul") :
                  /\ arg # {} => main[k].items # <<>>
                  /\ main[k].items # <<>> =>
                        /\ k > 1 /\ main[k - 1].tag = "h3"
                        /\ \A i \in 1..Len(main[k].items) :
                              /\ strptime(main[k].items[i]).year = YearAt(main, k)
                              /\ strptime(main[k].items[i]).month = main[k - 1].text
                        /\ \A i, j \in 1..Len(main[k].items) :
                              i < j => TextLess(main[k].items[i], main[k].items[j])
            /\ IsUnique(listed)
            /\ {listed[i] : i \in 1..Len(listed)} = arg

\* C14 witness: two documents of March 2021 and one of March 2022: two
\* year headings, the same month under each, a list of two and a list of
\* one.
C14_Witness ==
    /\ fn = "index"
    /\ Cardinality(arg) = 3
    /\ Cardinality(TagsAt(res, "h2")) = 2
    /\ MonthHeadings(res, 1) = <<<<2021, 3>>, <<2022, 3>>>>
    /\ Len(res) = 6 /\ Len(res[3].items) = 2 /\ Len(res[6].items) = 1

\* C17: test_connection returns True exactly when the status code
\* indicates success and the body of the response is decodable json,
\* whatever verbose is.
C17_ConnectionTest ==
    fn = "connection" => (res <=> (ok(arg.status) /\ arg.decodable))

Fragment(href) == IF href # <<>> /\ Head(href) = "#" THEN Tail(href) ELSE href

\* The article of items[k] (articles and comments are in the same order).
ArticleOf(k) == html.blocks[k - 1]

\* C15: in the rendered document the article of every comment of depth
\* greater than 0 carries one link to its parent, the identifier that link
\* refers to is the id of the anchor in the parent's article, and the
\* article of a comment of depth 0 carries no such link.
C15_BackLinkResolves ==
    html.done =>
        \A k \in 2..Len(items) :
            /\ ArticleOf(k).ID = items[k].ID
            /\ IF items[k].depth > 0
               THEN /\ Len(ArticleOf(k).parent_tag) = 1
                    /\ ArticleOf(items[k].parent).id_tag
                          = Fragment(ArticleOf(k).parent_tag[1])
               ELSE ArticleOf(k).parent_tag = <<>>

\* A path walked from a folder: ".." leaves the folder just entered.
RECURSIVE Walk(_, _)
Walk(at, segs) ==
    IF segs = <<>> THEN at
    ELSE IF Head(segs) = ".." /\ at # <<>>
         THEN Walk(SubSeq(at, 1, Len(at) - 1), Tail(segs))
         ELSE Walk(Append(at, Head(segs)), Tail(segs))

\* The file a link of a document of the blog folder leads to, as a path
\* under the folder of the blog.
LinkedFile(path) == [path EXCEPT !.folder = Walk(<<"blog">>, @)]

\* C16: every img of the rendered document whose source matches the
\* download pattern is wrapped in a link; seen from the folder of the
\* documents, the link leads to the path _scrape_attachments stores the
\* asset of that source under, and the image source to the path it stores
\* the thumbnail under.
C16_ImageLinksLocal ==
    html.done =>
        \A i \in 1..Len(html.imgs) :
            img_matches(html.imgs[i].of) =>
                /\ html.imgs[i].wrapped
                /\ LinkedFile(html.imgs[i].href)
                      = format_attachment_filename(html.imgs[i].of)
                /\ LinkedFile(html.imgs[i].src)
                      = format_attachment_filename(thumbnail_url(html.imgs[i].of))

\* C16 witness: the document of post 1 is rendered with the image of its
\* attachment wrapped, and the asset and the thumbnail the link and the
\* image lead to are on disk.
C16_Witness ==
    /\ html.done /\ items[1].ID = 1 /\ Len(html.imgs) = 3
    /\ ~html.imgs[1].wrapped
    /\ html.imgs[2].wrapped
    /\ html.imgs[2].href.folder = <<"..", "download", "attachments", "1">>
    /\ html.imgs[2].src.folder = <<"..", "download", "thumbnails", "1">>
    /\ FileBody(files, LinkedFile(html.imgs[2].href)) = "asset"
    /\ FileBody(files, LinkedFile(html.imgs[2].src)) = "asset"
    /\ html.imgs[3].of.folder = <<"wiki", "download", "attachments", "3">>
    /\ html.imgs[3].wrapped
    /\ Exists(LinkedFile(html.imgs[3].href))

\* ================================================= claims on failures
\* C18: every exception that an except clause of the program caught (the
\* download of an asset, the id check of scrape_posts, the lookup of the
\* space name in create_index) was reported by a warning or a message.
C18_NoSilentCatch == \A c \in caught : c.warned

\* C19: the retrieval of the comments of a post builds no comment twice,
\* whatever the remote side lists as children, and it is never ended by
\* the interpreter's limit on nested calls.
C19_CommentsTerminate ==
    /\ \A j, k \in 1..Len(items) : items[j].ID = items[k].ID => j = k
    /\ cause # "RecursionError"

RECURSIVE IsAncestor(_, _)
IsAncestor(a, k) ==
    LET p == items[k].parent
    IN  p >= 2 /\ (p = a \/ IsAncestor(a, p))

\* The place of the article of comment items[k] in the document.
Pos(k) == CHOOSE i \in 1..Len(html.blocks) : html.blocks[i].ID = items[k].ID

\* The place of comment items[k] in the results the API returned for its
\* parent.
ApiIndex(k) ==
    LET results == rcfg.children[items[items[k].parent].ID]
    IN  CHOOSE i \in 1..Len(results) : results[i] = items[k].ID

\* C22: the articles of a rendered document are the comments of the post in
\* depth-first pre-order: one article per comment, after the article of its
\* parent, directly followed by the articles of all its descendants,
\* comments of one parent in the order of the API's results, and a left
\* margin of 2em per level below the post's own comments.
C22_PreOrderComments ==
    html.done =>
        LET comments == 2..Len(items)
        IN  /\ Len(html.blocks) = Len(items) - 1
            /\ \A k \in comments :
                   \E i \in 1..Len(html.blocks) : html.blocks[i].ID = items[k].ID
            /\ \A k \in comments :
                   LET below == {d \in comments : IsAncestor(k, d)}
                       above == {a \in comments : IsAncestor(a, k)}
                   IN  /\ {Pos(d) : d \in below}
                             = Pos(k) + 1 .. Pos(k) + Cardinality(below)
                       /\ \A a \in above : Pos(a) < Pos(k)
                       /\ html.blocks[Pos(k)].margin = Cardinality(above) * 2
                       /\ \A j \in comments :
                              /\ items[j].parent = items[k].parent
                              /\ ApiIndex(j) < ApiIndex(k)
                              => Pos(j) < Pos(k)

C22_Witness ==
    /\ html.done
    /\ rsel = "tree"
    /\ [i \in 1..Len(html.blocks) |-> html.blocks[i].ID] = <<3, 5, 6, 4>>
    /\ [i \in 1..Len(html.blocks) |-> html.blocks[i].margin] = <<0, 2, 4, 0>>

\* ----------------------------------------------------------- buffer claims
\* C23: the buffer a scrape_list call exports holds the entries that call
\* appended and no entry of an earlier call: when the call fetched entries
\* and merge was not requested, the rows of the rewritten index file are
\* exactly the entries the call fetched.
C23_BufferScopedToCall ==
    (lpc = "done" /\ ~merge /\ Len(Appended) > 0) => indexFile.rows = Appended

\* --------------------------------------------------------- document claims
\* C24: the documents of posts with distinct ids are written to distinct
\* files: every post scraped and exported so far in the batch still has
\* its own document in the blog folder, whatever its date and title.
C24_OneFilePerPost ==
    \A i \in scraped : \E d \in docs : d.post = IdOf(batch[i])

\* ------------------------------------------------------------ asset claims
\* C25: a local asset file holds the bytes of a successful download: no
\* file is left by a download answered with a 4xx/5xx status, and an asset
\* that a later attempt finds present and skips is one that was downloaded
\* successfully.
C25_FilesOnlyFromSuccess ==
    /\ \A f \in files : f.body = "asset"
    /\ \A k \in 1..Len(attempts) :
           attempts[k].result = "present" => attempts[k].before = "asset"

====
